---- MODULE Spec2Model ----
(***************************************************************************)
(* A model of the Bun router of src/index.ts: the route table and its      *)
(* pattern compiler (register), the request pipeline of the fetch          *)
(* callback (upgrade, middleware chain, serveRoute, populateData,           *)
(* serveStatic, 404), the response normaliser (response), the WebSocket    *)
(* handler set (websocket) and the page registration of initRoute.         *)
(*                                                                         *)
(* Strings whose characters matter (path templates, pathnames, parameter   *)
(* names) are sequences of one-character strings.  Strings whose markup    *)
(* matters (bodies) are sequences of lexical tokens.                       *)
(***************************************************************************)
EXTENDS Integers, Sequences, FiniteSets, TLC

\* ------------------------------------------------------------------ bounds
\* Most routes the table holds, over all methods.
MaxRoutes == 2
\* Most entries the middleware chain holds.
MaxMw == 2
\* Most websocket(...) calls.
MaxWs == 2
\* Most WebSocket events delivered.
MaxEvents == 2

\* ------------------------------------------------------- strings as sequences
DropN(s, n) == SubSeq(s, n + 1, Len(s))

\* The class [^\s/] of the parameter pattern of register.
IsNameChar(c) == c \notin {"/", " "}

\* Length of the longest prefix of s made of [^\s/] characters.
RECURSIVE NameRun(_)
NameRun(s) ==
    IF s # <<>> /\ IsNameChar(s[1]) THEN 1 + NameRun(Tail(s)) ELSE 0

\* String.prototype.split with the separator "/:".
RECURSIVE SplitFrom(_, _)
SplitFrom(s, cur) ==
    IF s = <<>> THEN <<cur>>
    ELSE IF Len(s) >= 2 /\ s[1] = "/" /\ s[2] = ":"
         THEN <<cur>> \o SplitFrom(DropN(s, 2), <<>>)
         ELSE SplitFrom(Tail(s), Append(cur, s[1]))

SplitSlashColon(path) == SplitFrom(path, <<>>)

\* keys = path.split('/:').slice(1)
RouteKeys(path) == Tail(SplitSlashColon(path))

\* The token a parameter is replaced by in the regular expression source.
Group == "([^/]+)"

\* path.replace(/:[^\s/]+/g, '([^/]+)'): every ':' followed by at least one
\* [^\s/] character is replaced, with the whole run, by one capture group.
RECURSIVE ReplaceParams(_)
ReplaceParams(path) ==
    IF path = <<>> THEN <<>>
    ELSE IF path[1] = ":" /\ NameRun(Tail(path)) >= 1
         THEN <<Group>> \o ReplaceParams(DropN(path, 1 + NameRun(Tail(path))))
         ELSE <<path[1]>> \o ReplaceParams(Tail(path))

\* new RegExp(`^${...}$`): the anchored token sequence.
RouteRegex(path) == ReplaceParams(path)

\* pathname.match(regex).  The result is <<TRUE, captures>> or <<FALSE, <<>>>>.
\* A group takes one or more characters other than '/', the longest run
\* first (greedy, backtracking); '.' in the source is the regex wildcard;
\* every other token is a literal character.  The match is anchored at both
\* ends.
NoMatch == <<FALSE, <<>>>>

RECURSIVE MatchFrom(_, _)
RECURSIVE MatchGroup(_, _, _)
MatchGroup(regex, s, k) ==
    IF k = 0 THEN NoMatch
    ELSE LET rest == MatchFrom(Tail(regex), DropN(s, k))
         IN  IF rest[1] THEN <<TRUE, <<SubSeq(s, 1, k)>> \o rest[2]>>
             ELSE MatchGroup(regex, s, k - 1)

RECURSIVE SlashFreeRun(_)
SlashFreeRun(s) == IF s # <<>> /\ s[1] # "/" THEN 1 + SlashFreeRun(Tail(s)) ELSE 0

MatchFrom(regex, s) ==
    IF regex = <<>> THEN (IF s = <<>> THEN <<TRUE, <<>>>> ELSE NoMatch)
    ELSE IF regex[1] = Group THEN MatchGroup(regex, s, SlashFreeRun(s))
    ELSE IF s # <<>> /\ (regex[1] = s[1] \/ regex[1] = ".")
         THEN MatchFrom(Tail(regex), Tail(s))
         ELSE NoMatch

RegexMatch(regex, pathname) == MatchFrom(regex, pathname)

\* ------------------------------------------------------------ JavaScript values
\* A value is a record with a type tag t.  Strings are token sequences.
Str(s) == [t |-> "string", v |-> s]
Num(n) == [t |-> "number", v |-> n]
Bool(b) == [t |-> "boolean", v |-> b]
Null == [t |-> "null"]
Undefined == [t |-> "undefined"]
Obj(o) == [t |-> "object", o |-> o]
Arr(s) == [t |-> "array", v |-> s]
\* A function value that returns r whatever it is called with.
Fn(r) == [t |-> "function", returns |-> r]
\* A Blob / BunFile with its MIME type and content; it may not exist on disk.
BunFile(type, content, exists) ==
    [t |-> "file", type |-> type, content |-> content, exists |-> exists]

\* Property read value[key]; the caller has excluded null and undefined.
Get(value, key) ==
    CASE value.t = "object" ->
           IF key \in DOMAIN value.o THEN value.o[key] ELSE Undefined
      [] value.t = "file" ->
           IF key = "size" THEN Num(Len(value.content))
           ELSE IF key = "type" THEN Str(<<value.type>>)
           ELSE Undefined
      [] OTHER -> Undefined

\* ToBoolean.
Truthy(value) ==
    CASE value.t \in {"null", "undefined"} -> FALSE
      [] value.t = "string" -> value.v # <<>>
      [] value.t = "number" -> value.v # 0
      [] value.t = "boolean" -> value.v
      [] OTHER -> TRUE

\* The tokens of a string joined into one token.
RECURSIVE Join(_)
Join(tokens) == IF tokens = <<>> THEN "" ELSE tokens[1] \o Join(Tail(tokens))

\* The keys of an object as a sequence.
RECURSIVE SetToSeq(_)
SetToSeq(S) ==
    IF S = {} THEN <<>>
    ELSE LET k == CHOOSE k \in S : TRUE IN <<k>> \o SetToSeq(S \ {k})

\* String(value), as tokens.
RECURSIVE ToStringJS(_)
RECURSIVE JoinValues(_)
JoinValues(values) ==
    IF values = <<>> THEN <<>>
    ELSE ToStringJS(values[1])
         \o (IF Len(values) > 1 THEN <<",">> ELSE <<>>)
         \o JoinValues(Tail(values))

ToStringJS(value) ==
    CASE value.t = "string" -> value.v
      [] value.t = "number" -> <<ToString(value.v)>>
      [] value.t = "boolean" -> <<IF value.v THEN "true" ELSE "false">>
      [] value.t = "null" -> <<"null">>
      [] value.t = "undefined" -> <<"undefined">>
      [] value.t = "array" -> JoinValues(value.v)
      [] value.t = "function" -> <<"function">>
      [] value.t = "file" -> <<"[object Blob]">>
      [] OTHER -> <<"[object Object]">>

\* JSON.stringify(value), as tokens.  Properties whose value is undefined or
\* a function are left out.
RECURSIVE JsonStringify(_)
RECURSIVE JsonEntries(_, _)
RECURSIVE JsonItems(_)
JsonEntries(o, keys) ==
    IF keys = <<>> THEN <<>>
    ELSE LET k == keys[1]
             rest == JsonEntries(o, Tail(keys))
         IN  IF o[k].t \in {"undefined", "function"} THEN rest
             ELSE <<"\"" \o k \o "\":">> \o JsonStringify(o[k])
                  \o (IF rest # <<>> THEN <<",">> ELSE <<>>) \o rest

JsonItems(values) ==
    IF values = <<>> THEN <<>>
    ELSE JsonStringify(values[1])
         \o (IF Len(values) > 1 THEN <<",">> ELSE <<>>)
         \o JsonItems(Tail(values))

JsonStringify(value) ==
    CASE value.t = "string" -> <<"\"">> \o value.v \o <<"\"">>
      [] value.t \in {"number", "boolean", "null"} -> ToStringJS(value)
      [] value.t = "array" -> <<"[">> \o JsonItems(value.v) \o <<"]">>
      [] value.t = "object" ->
           <<"{">> \o JsonEntries(value.o, SetToSeq(DOMAIN value.o)) \o <<"}">>
      [] OTHER -> <<"{}">>

\* ---------------------------------------------------------------- responses
\* The header sets of src/index.ts.
json == "application/json"
html == "text/html;utf-8"
text == "text/plain"

\* The live-reload script, one token.
script == "<script>reload</script>\n"

\* new Response(body, init).
Response(body, ctype) ==
    [t |-> "response", status |-> 200, body |-> body, ctype |-> ctype]

\* new Response(body) with no init: a Blob is sent as it is, with its own
\* type; any other object is sent as its string coercion.
ResponseOf(body) ==
    IF body.t = "file" THEN Response(body.content, body.type)
    ELSE Response(ToStringJS(body), "text/plain;charset=utf-8")

\* The result of a computation that may throw.
Ok(value) == [ok |-> TRUE, val |-> value]
Throw(error) == [ok |-> FALSE, err |-> error]

\* render(element) of response.
RECURSIVE render(_)
RECURSIVE RenderAll(_)
RECURSIVE Attributes(_, _)
RenderAll(elements) ==
    IF elements = <<>> THEN <<>>
    ELSE render(elements[1]) \o RenderAll(Tail(elements))

Attributes(o, keys) ==
    IF keys = <<>> THEN ""
    ELSE LET k == keys[1]
             rest == Attributes(o, Tail(keys))
             this == k \o "=\"" \o Join(ToStringJS(o[k])) \o "\""
         IN  IF rest = "" THEN this ELSE this \o " " \o rest

render(element) ==
    IF ~Truthy(element) THEN <<>>
    ELSE IF element.t \in {"string", "number"} THEN ToStringJS(element)
    ELSE IF element.t = "array" THEN RenderAll(element.v)
    ELSE LET type == Get(element, "type")
             props == Get(element, "props")
             attributes ==
                 IF Truthy(props) /\ props.t = "object"
                 THEN Attributes(props.o, SetToSeq(DOMAIN props.o \ {"children"}))
                 ELSE ""
             children ==
                 IF Truthy(props) /\ Truthy(Get(props, "children"))
                 THEN render(Get(props, "children"))
                 ELSE <<>>
             tag == Join(ToStringJS(type))
         IN  IF type.t = "function" THEN render(type.returns)
             ELSE <<"<" \o tag \o (IF attributes # "" THEN " " \o attributes ELSE "") \o ">">>
                  \o children \o <<"</" \o tag \o ">">>

\* Tokens that are white space.
IsSpace(tok) == tok \in {" ", "\n"}

\* body.trim(), as far as the first token matters.
RECURSIVE TrimStart(_)
TrimStart(tokens) ==
    IF tokens # <<>> /\ IsSpace(tokens[1]) THEN TrimStart(Tail(tokens)) ELSE tokens

\* The tokens of the markup vocabulary that start with '<' followed by a
\* letter or '!', other than "<svg".
HtmlOpeners == {"<html>", "<head>", "<h1>", "<!doctype html>", script}

\* isHtmlContent(body) of response.
isHtmlContent(body) ==
    LET trimmed == TrimStart(body)
    IN  trimmed # <<>> /\ trimmed[1] \in HtmlOpeners

\* Mutant of response: a falsy body is passed over and nothing is returned.
responseSkipsFalsy(body) ==
    IF ~Truthy(body) THEN Ok(Undefined)
    ELSE IF Truthy(Get(body, "size")) THEN Ok(ResponseOf(body))
    ELSE IF body.t \in {"object", "array", "file"}
         THEN IF Truthy(Get(body, "type")) THEN Ok(Response(render(body), html))
              ELSE Ok(Response(JsonStringify(body), json))
    ELSE IF body.t # "string" THEN Throw("TypeError")
    ELSE IF isHtmlContent(body.v) THEN Ok(Response(body.v, html))
    ELSE Ok(Response(body.v, text))

\* response(body): the normaliser.  body.size of null or undefined throws;
\* so does body.trim() of a number or a boolean.
response(body) ==
    IF body.t \in {"null", "undefined"} THEN Throw("TypeError")
    ELSE IF Truthy(Get(body, "size")) THEN Ok(ResponseOf(body))
    ELSE IF body.t \in {"object", "array", "file"}
         THEN IF Truthy(Get(body, "type"))
              THEN Ok(Response(render(body), html))
              ELSE Ok(Response(JsonStringify(body), json))
    ELSE IF body.t # "string" THEN Throw("TypeError")
    ELSE IF isHtmlContent(body.v) THEN Ok(Response(body.v, html))
    ELSE Ok(Response(body.v, text))

\* ------------------------------------------------------------------- inputs
Methods == {"GET", "POST"}

\* The path templates given to register, and the pathnames requested, when
\* the whole pipeline runs.
Templates ==
    { <<"/", "a", "/", ":", "x">>,
      <<"/", "a", "/", "b">> }

Pathnames ==
    { <<"/", "a", "/", "b">>,
      <<"/", "a", "/">>,
      <<"/">> }

\* The templates and the pathnames when only registration and route
\* dispatch run.
RouteTemplates ==
    Templates \cup
    { <<"/", ":", "x", "/", "b">>,
      <<"/", ":", "x", "/", ":", "y">>,
      <<"/", ":", "x", "/", ":", "x">>,
      <<"/", "a", ":", "x">> }

RoutePathnames ==
    { <<"/", "a", "/", "b">>,
      <<"/", "a", "b", "/", "b">>,
      <<"/", "b", "/", "a">>,
      <<"/", "a", "/">> }

\* What one call of a middleware entry does: it invokes the continuation,
\* returns without having invoked it, returns a Response without having
\* invoked it, or throws.
MwBehaviours == {"next", "pending", "respond", "throw"}

EarlyResponse == Response(<<"denied">>, text)

\* The request bodies, by declared Content-Type and well-formedness.
Bodies == {"json", "badjson", "form", "badform", "other"}

ParsedJson == Obj([user |-> Str(<<"bun">>)])
RawBuffer == [t |-> "buffer", v |-> <<"bytes">>]

HeadPage == <<"<html>", "<head>", "</head>", "</html>">>

\* The values a handler returns.
ReturnValues ==
    { Str(<<"hi">>),
      Str(HeadPage),
      Obj([message |-> Str(<<"ok">>)]),
      Obj([size |-> Num(3)]),
      Obj([type |-> Str(<<"note">>)]),
      Obj([type |-> Str(<<"head">>),
           props |-> Obj([children |-> Str(<<"hi">>)])]),
      BunFile("image/png", <<"png">>, TRUE),
      Null,
      Undefined,
      Bool(TRUE),
      Num(7) }

\* The content of a file of the public directory, or Missing.
Missing == <<"ENOENT">>
FileContents == { <<>>, <<"hi">>, HeadPage }
FileStates == FileContents \cup {Missing}

\* ------------------------------------------------------------------- state
VARIABLES
    options,      \* this.options: [livereload, spa]
    routes,       \* this.routes: method -> sequence of [regex, keys, handler]
    templates,    \* the path each route of routes was registered with
    middlewares,  \* this.middlewares
    pc,           \* where the fetch callback of the request is
    req,          \* the request and the fields populateData adds to it
    iter,         \* the index of the for-of loop over this.middlewares
    route,        \* the route serveRoute matched
    result,       \* what the promise of the fetch callback settled to, or
                  \* "pending"; "unhandled" is a pending promise beside
                  \* which an error rejected a promise nobody awaits
    early,        \* the Response a middleware entry returned
    disk,         \* the files serveStatic found: [path, file, index]
    log,          \* the stages that ran for the request, in order
    wsHandler,    \* this.wsHandler: the registered WebSocket callbacks
    wsLast,       \* the argument of the latest websocket(...) call
    delivered,    \* the latest WebSocket event and the callback it ran
    parked,       \* a second request in flight, suspended at an await
    pending       \* the page routes initRoute has still to register

vars == <<options, routes, templates, middlewares, pc, req, iter, route,
          result, early, disk, log, wsHandler, wsLast, delivered, parked,
          pending>>

Unset == [t |-> "unset"]
NoRoute == [regex |-> <<>>, keys |-> <<>>, handler |-> 0]
NoRequest == [method |-> "", pathname |-> <<>>, body |-> "unread",
              params |-> Unset, payload |-> Unset, data |-> Unset,
              query |-> Unset]
Pending == [kind |-> "pending"]
Event(ev, n) == [ev |-> ev, n |-> n]

TotalRoutes == Len(routes["GET"]) + Len(routes["POST"])

\* The per-request state of a request that has not arrived.
IdleRequest == [pc |-> "idle", req |-> NoRequest, iter |-> 0,
                route |-> NoRoute, result |-> Pending, early |-> Unset,
                disk |-> Unset, log |-> <<>>]
NoDelivery == [seq |-> 0, event |-> "", to |-> <<0, "">>]

\* The fields after the constructor ran, before initRoute's first await
\* resumes.
Constructed ==
    /\ options \in [livereload : BOOLEAN, spa : BOOLEAN]
    /\ routes = [m \in Methods |-> <<>>]
    /\ templates = [m \in Methods |-> <<>>]
    /\ middlewares = <<>>
    /\ pc = "idle"
    /\ req = NoRequest
    /\ iter = 0
    /\ route = NoRoute
    /\ result = Pending
    /\ early = Unset
    /\ disk = Unset
    /\ log = <<>>
    /\ wsHandler = Null
    /\ wsLast = Null
    /\ delivered = NoDelivery
    /\ parked = IdleRequest

\* A router without pagesDir: initRoute returns at once.
Init ==
    /\ Constructed
    /\ pending = <<>>

\* The page modules initRoute finds under pagesDir, as the route each one
\* registers: the method of its export and the path of its file.
Pages == [method : Methods, path : Templates]
PageLists == UNION {[1..n -> Pages] : n \in 1..MaxRoutes}

\* A router with pagesDir: the constructor has called initRoute, which is
\* suspended at its first await, and serve.
InitPages ==
    /\ Constructed
    /\ pending \in PageLists

\* ------------------------------------------------------------ registration
\* register(method, path, handler); the handler is a new function, named by
\* the number of the registration.
RegisterRoute(method, path) ==
    /\ routes' = [routes EXCEPT ![method] =
                     Append(@, [regex |-> RouteRegex(path),
                                keys |-> RouteKeys(path),
                                handler |-> TotalRoutes + 1])]
    /\ templates' = [templates EXCEPT ![method] = Append(@, path)]

Register(method, path) ==
    /\ TotalRoutes < MaxRoutes
    /\ RegisterRoute(method, path)
    /\ UNCHANGED <<wsHandler, wsLast, delivered, parked, pending>>
    /\ UNCHANGED <<options, middlewares, pc, req, iter, route, result, early, disk, log>>

\* use(...middleware) with n new functions, named by their position.
Use(n) ==
    /\ Len(middlewares) + n <= MaxMw
    /\ middlewares' = middlewares \o [i \in 1..n |-> Len(middlewares) + i]
    /\ UNCHANGED <<wsHandler, wsLast, delivered, parked, pending>>
    /\ UNCHANGED <<options, routes, templates, pc, req, iter, route, result, early, disk, log>>

\* ------------------------------------------------------------------ fetch
\* fetch: server.upgrade(req) hands an upgrade request to the WebSocket
\* layer and the callback returns; otherwise the middleware loop starts.
\* Mutant of AfterUpgrade: the return after a successful upgrade is missing.
AfterUpgradeNoReturn(upgraded) == "mw"

\* Where fetch goes after if (server.upgrade(req)) return.
AfterUpgrade(upgraded) == IF upgraded THEN "done" ELSE "mw"

Fetch(method, pathname, upgraded) ==
    /\ pc = "idle"
    /\ req' = [NoRequest EXCEPT !.method = method, !.pathname = pathname]
    /\ log' = <<Event("upgrade", IF upgraded THEN 1 ELSE 0)>>
    /\ pc' = AfterUpgrade(upgraded)
    /\ result' = IF upgraded THEN [kind |-> "upgraded"] ELSE result
    /\ iter' = 0
    /\ UNCHANGED <<wsHandler, wsLast, delivered, parked, pending>>
    /\ UNCHANGED <<options, routes, templates, middlewares, route, early, disk>>

\* One turn of the loop: middleware(req, res, resolve) is called inside a
\* promise that only resolve settles.  What the entry returns is dropped and
\* what it throws rejects the executor, not the promise that is awaited.
\* The for-of loop over this.middlewares ends when the index has reached the
\* length the array has by then.
\* Mutant of LoopDone: the loop stops after the first entry.
LoopDoneAfterFirst(i, entries) == i >= 1 \/ i >= Len(entries)

LoopDone(i, entries) == i >= Len(entries)

\* Mutant of AfterInvoke: the loop goes on without awaiting the promise.
AfterInvokeNoAwait(behaviour) == "mw"

\* await new Promise(...): the loop goes on once the entry has invoked the
\* continuation, and waits until then.
AfterInvoke(behaviour) == IF behaviour = "next" THEN "mw" ELSE "mwWait"

MwInvoke(behaviour) ==
    /\ pc = "mw"
    /\ ~LoopDone(iter, middlewares)
    /\ log' = log \o <<Event("mw", middlewares[iter + 1])>>
                   \o (IF behaviour = "next"
                       THEN <<Event("next", middlewares[iter + 1])>>
                       ELSE <<>>)
    /\ iter' = iter + 1
    /\ pc' = AfterInvoke(behaviour)
    /\ early' = IF behaviour = "respond" THEN EarlyResponse ELSE early
    /\ result' = IF behaviour = "throw"
                 THEN [kind |-> "unhandled", err |-> "MiddlewareError"]
                 ELSE result
    /\ UNCHANGED <<wsHandler, wsLast, delivered, parked, pending>>
    /\ UNCHANGED <<options, routes, templates, middlewares, req, route, disk>>

\* The entry that returned without a Response invokes the continuation later.
MwNext ==
    /\ pc = "mwWait"
    /\ early = Unset
    /\ result = Pending
    /\ pc' = "mw"
    /\ log' = Append(log, Event("next", middlewares[iter]))
    /\ UNCHANGED <<wsHandler, wsLast, delivered, parked, pending>>
    /\ UNCHANGED <<options, routes, templates, middlewares, req, iter, route,
                   result, early, disk>>

\* The first route of the list whose regex matches, or 0.
RECURSIVE LookupFrom(_, _, _)
LookupFrom(routeList, pathname, i) ==
    IF i > Len(routeList) THEN 0
    ELSE IF RegexMatch(routeList[i].regex, pathname)[1] THEN i
    ELSE LookupFrom(routeList, pathname, i + 1)

\* Mutant of Lookup: the last matching route wins.
LookupLast(routeList, pathname) ==
    LET hits == {i \in 1..Len(routeList) : RegexMatch(routeList[i].regex, pathname)[1]}
    IN  IF hits = {} THEN 0 ELSE CHOOSE i \in hits : \A j \in hits : j <= i

Lookup(routeList, pathname) == LookupFrom(routeList, pathname, 1)

\* req.params: keys.reduce((acc, key, index) => acc[key] = match[index + 1]).
\* A capture the match does not have is undefined; a key set twice keeps
\* the later value.
Capture(captures, i) == IF i <= Len(captures) THEN Str(captures[i]) ELSE Undefined

LastIndexOf(keys, key) ==
    CHOOSE i \in 1..Len(keys) :
        keys[i] = key /\ \A j \in (i + 1)..Len(keys) : keys[j] # key

Params(keys, captures) ==
    Obj([key \in {keys[i] : i \in 1..Len(keys)} |->
            Capture(captures, LastIndexOf(keys, key))])

\* serveRoute up to the first await of populateData: the loop over the
\* method's list, and on a match the params.  (The bearer token that
\* populateData also extracts is not part of the state.)
ServeRoute ==
    /\ pc = "mw"
    /\ LoopDone(iter, middlewares)
    /\ LET routeList == routes[req.method]
           i == Lookup(routeList, req.pathname)
       IN  IF i > 0
           THEN /\ route' = routeList[i]
                /\ req' = [req EXCEPT !.params =
                              Params(routeList[i].keys,
                                     RegexMatch(routeList[i].regex, req.pathname)[2])]
                /\ log' = log \o <<Event("lookup", i), Event("enrich", 0)>>
                /\ pc' = "body"
           ELSE /\ log' = Append(log, Event("lookup", 0))
                /\ pc' = "static"
                /\ UNCHANGED <<route, req>>
    /\ UNCHANGED <<wsHandler, wsLast, delivered, parked, pending>>
    /\ UNCHANGED <<options, routes, templates, middlewares, iter, result, early, disk>>

\* The payload part of populateData.  req.json() and req.formData() throw on
\* a malformed body; the form branch writes into req.data, which nothing has
\* set; the last branch stores the buffer in req.data.
PopulateBody(body) ==
    CASE body = "json" ->
           Ok([req EXCEPT !.body = body, !.payload = ParsedJson, !.query = Obj(<<>>)])
      [] body = "badjson" -> Throw("SyntaxError")
      [] body = "badform" -> Throw("TypeError")
      [] body = "form" -> Throw("TypeError")
      [] OTHER ->
           Ok([req EXCEPT !.body = body, !.data = RawBuffer, !.query = Obj(<<>>)])

PopulateData(body) ==
    /\ pc = "body"
    /\ LET r == PopulateBody(body)
       IN  IF r.ok
           THEN /\ req' = r.val
                /\ pc' = "handler"
                /\ result' = result
           ELSE /\ pc' = "done"
                /\ result' = [kind |-> "rejected", err |-> r.err]
                /\ req' = [req EXCEPT !.body = body]
    /\ UNCHANGED <<wsHandler, wsLast, delivered, parked, pending>>
    /\ UNCHANGED <<options, routes, templates, middlewares, iter, route, early, disk, log>>

\* return this.response(await route.handler(req)); in fetch, a falsy value
\* of serveRoute goes on to serveStatic.
Handler(returned, throws) ==
    /\ pc = "handler"
    /\ log' = log \o <<Event("handler", route.handler)>>
                 \o (IF throws THEN <<Event("raise", route.handler)>> ELSE <<>>)
    /\ LET r == response(returned)
       IN  IF throws
           THEN /\ pc' = "done"
                /\ result' = [kind |-> "rejected", err |-> "HandlerError"]
           ELSE IF ~r.ok
           THEN /\ pc' = "done"
                /\ result' = [kind |-> "rejected", err |-> r.err,
                              returned |-> returned]
           ELSE IF Truthy(r.val)
           THEN /\ pc' = "done"
                /\ result' = [kind |-> "response", via |-> "route",
                              resp |-> r.val, returned |-> returned]
           ELSE /\ pc' = "static"
                /\ result' = result
    /\ UNCHANGED <<wsHandler, wsLast, delivered, parked, pending>>
    /\ UNCHANGED <<options, routes, templates, middlewares, req, iter, route, early, disk>>

\* ----------------------------------------------------------- static fallback
\* new URL(req.url).pathname.replace(/\/$/, 'index.html'); "index.html" is
\* one token of the path.
StaticPathname(pathname) ==
    IF pathname # <<>> /\ pathname[Len(pathname)] = "/"
    THEN SubSeq(pathname, 1, Len(pathname) - 1) \o <<"index.html">>
    ELSE pathname

\* join(publicDir, p), as the path below the public directory.
JoinPublic(p) == IF p # <<>> /\ p[1] = "/" THEN Tail(p) ELSE p

IndexPath == JoinPublic(<<"index.html">>)

\* The type Bun.file gives a path, by its extension.
MimeType(path) ==
    IF path # <<>> /\ path[Len(path)] = "index.html"
    THEN "text/html;charset=utf-8"
    ELSE "application/octet-stream"

IsHtmlType(type) == type = "text/html;charset=utf-8"

\* Bun.file(path), given what the disk holds at path.
FileAt(path, state) ==
    BunFile(MimeType(path), IF state = Missing THEN <<>> ELSE state, state # Missing)

\* body.replace('</head>', `${script}</head>`): the first occurrence only.
RECURSIVE ReplaceFirst(_, _, _)
ReplaceFirst(tokens, tok, by) ==
    IF tokens = <<>> THEN <<>>
    ELSE IF tokens[1] = tok THEN by \o Tail(tokens)
    ELSE <<tokens[1]>> \o ReplaceFirst(Tail(tokens), tok, by)

\* Mutant of addScript: the text is returned without the script.
addScriptNothing(file) ==
    IF ~IsHtmlType(file.type) THEN Ok(file)
    ELSE IF ~file.exists THEN Throw("ENOENT")
    ELSE Ok(Str(file.content))

\* addScript(file) of serveStatic; file.text() throws when the file is missing.
addScript(file) ==
    IF ~IsHtmlType(file.type) THEN Ok(file)
    ELSE IF ~file.exists THEN Throw("ENOENT")
    ELSE Ok(Str(ReplaceFirst(file.content, "</head>", <<script, "</head>">>)))

\* this.response(await addScript(file))
RespondWithScript(file) ==
    LET body == addScript(file)
    IN  IF body.ok THEN response(body.val) ELSE body

\* serveStatic(req): the Response, undefined, or what it throws; via tells
\* the branch that returned.
serveStatic(method, pathname, fileState, indexState) ==
    IF method # "GET" THEN [via |-> "none", out |-> Ok(Undefined)]
    ELSE LET index == FileAt(IndexPath, indexState)
             file == FileAt(JoinPublic(StaticPathname(pathname)), fileState)
         IN  IF file.exists
             THEN [via |-> "file",
                   out |-> IF options.livereload THEN RespondWithScript(file)
                           ELSE response(file)]
             ELSE IF options.spa
             THEN [via |-> "spa", out |-> RespondWithScript(index)]
             ELSE [via |-> "none", out |-> Ok(Undefined)]

NotFound == Response(<<"404">>, text)

\* The rest of fetch after serveRoute found no route: serveStatic, then the
\* fixed 404.  The disk holds fileState at the resolved path, which
\* disk.path records for a GET, and indexState at the root index.html.
ServeStatic(fileState, indexState) ==
    /\ pc = "static"
    /\ JoinPublic(StaticPathname(req.pathname)) = IndexPath => fileState = indexState
    /\ disk' = [path |-> IF req.method = "GET"
                          THEN JoinPublic(StaticPathname(req.pathname))
                          ELSE <<>>,
                 file |-> fileState, index |-> indexState]
    /\ log' = Append(log, Event("static", 0))
    /\ pc' = "done"
    /\ LET s == serveStatic(req.method, req.pathname, fileState, indexState)
       IN  result' =
             IF ~s.out.ok THEN [kind |-> "rejected", err |-> s.out.err]
             ELSE IF s.out.val.t = "response"
                  THEN [kind |-> "response", via |-> s.via, resp |-> s.out.val]
                  ELSE [kind |-> "response", via |-> "404", resp |-> NotFound]
    /\ UNCHANGED <<wsHandler, wsLast, delivered, parked, pending>>
    /\ UNCHANGED <<options, routes, templates, middlewares, req, iter, route, early>>

Next ==
    \/ \E method \in Methods, path \in Templates : Register(method, path)
    \/ \E n \in 1..MaxMw : Use(n)
    \/ \E method \in Methods, pathname \in Pathnames, upgraded \in BOOLEAN :
          Fetch(method, pathname, upgraded)
    \/ \E behaviour \in MwBehaviours : MwInvoke(behaviour)
    \/ MwNext
    \/ ServeRoute
    \/ \E body \in Bodies : PopulateData(body)
    \/ \E returned \in ReturnValues, throws \in BOOLEAN : Handler(returned, throws)
    \/ \E fileState \in FileStates, indexState \in FileStates :
          ServeStatic(fileState, indexState)

Spec == Init /\ [][Next]_vars

\* Registration and route dispatch alone, over more templates and pathnames:
\* no middleware is registered and the handlers return one value.
NextRoute ==
    \/ \E method \in Methods, path \in RouteTemplates : Register(method, path)
    \/ \E method \in Methods, pathname \in RoutePathnames :
          Fetch(method, pathname, FALSE)
    \/ ServeRoute
    \/ \E body \in Bodies : PopulateData(body)
    \/ Handler(Str(<<"hi">>), FALSE)

SpecRoute == Init /\ [][NextRoute]_vars

\* ------------------------------------------------------------- initRoute
\* One turn of initRoute's loop: after await import(...) the module's
\* handler is registered under the path of its file.
InitRoute ==
    /\ pending # <<>>
    /\ RegisterRoute(Head(pending).method, Head(pending).path)
    /\ pending' = Tail(pending)
    /\ UNCHANGED <<wsHandler, wsLast, delivered, parked>>
    /\ UNCHANGED <<options, middlewares, pc, req, iter, route, result, early, disk, log>>

\* A router built with pagesDir, serving while initRoute registers the
\* pages: the handlers return one value and the disk is empty.
NextInit ==
    \/ InitRoute
    \/ \E method \in Methods, pathname \in Pathnames :
          Fetch(method, pathname, FALSE)
    \/ ServeRoute
    \/ PopulateData("json")
    \/ Handler(Str(<<"hi">>), FALSE)
    \/ ServeStatic(Missing, Missing)

SpecInit == InitPages /\ [][NextInit]_vars

\* ------------------------------------------------------ requests in flight
\* The per-request state of the request whose callback is running.
Current == [pc |-> pc, req |-> req, iter |-> iter, route |-> route,
            result |-> result, early |-> early, disk |-> disk, log |-> log]

\* The running callback is suspended at an await and the callback of the
\* other request in flight runs.
Switch ==
    /\ parked' = Current
    /\ pc' = parked.pc
    /\ req' = parked.req
    /\ iter' = parked.iter
    /\ route' = parked.route
    /\ result' = parked.result
    /\ early' = parked.early
    /\ disk' = parked.disk
    /\ log' = parked.log
    /\ UNCHANGED <<wsHandler, wsLast, delivered, pending>>
    /\ UNCHANGED <<options, routes, templates, middlewares>>

\* Two requests in flight through the middleware chain: no route is
\* registered and the disk is empty.
NextTwo ==
    \/ \E n \in 1..MaxMw : Use(n)
    \/ Fetch("GET", <<"/">>, FALSE)
    \/ \E behaviour \in MwBehaviours : MwInvoke(behaviour)
    \/ MwNext
    \/ ServeRoute
    \/ ServeStatic(Missing, Missing)
    \/ Switch

SpecTwo == Init /\ [][NextTwo]_vars

\* ---------------------------------------------------------------- websocket
\* The events Bun's WebSocket layer raises and the callbacks a handler set
\* may carry; every callback of a set is optional.
WsEvents == {"open", "message", "close", "drain"}
HandlerSets == {{}, {"message"}, {"open", "message", "close"}, WsEvents}

\* Mutant of SetWsHandler: a handler set that is already registered stays.
KeepFirstWsHandler(current, handler) ==
    IF current = Null THEN handler ELSE current

\* websocket = (handler) => (this.wsHandler = handler)
SetWsHandler(current, handler) == handler

\* websocket(handler); the handler set is a new object, named by the number
\* of the call.
Websocket(callbacks) ==
    /\ (IF wsLast = Null THEN 0 ELSE wsLast.id) < MaxWs
    /\ LET handler == [id |-> IF wsLast = Null THEN 1 ELSE wsLast.id + 1,
                       callbacks |-> callbacks]
       IN  /\ wsHandler' = SetWsHandler(wsHandler, handler)
           /\ wsLast' = handler
    /\ UNCHANGED <<delivered, parked, pending>>
    /\ UNCHANGED <<options, routes, templates, middlewares, pc, req, iter,
                   route, result, early, disk, log>>

\* this.wsHandler?.[event]?.(...): the set and the callback that run for an
\* event, <<0, "">> when no set is registered or the set lacks the callback.
Callback(handler, event) ==
    IF handler = Null THEN <<0, "">>
    ELSE IF event \in handler.callbacks THEN <<handler.id, event>>
    ELSE <<0, "">>

\* An event on a socket that server.upgrade opened.
WsEvent(event) ==
    /\ result.kind = "upgraded"
    /\ delivered.seq < MaxEvents
    /\ delivered' = [seq |-> delivered.seq + 1, event |-> event,
                     to |-> Callback(wsHandler, event)]
    /\ UNCHANGED <<wsHandler, wsLast, parked, pending>>
    /\ UNCHANGED <<options, routes, templates, middlewares, pc, req, iter,
                   route, result, early, disk, log>>

\* Handler-set registration and WebSocket events, around one upgraded
\* request.
NextWs ==
    \/ \E callbacks \in HandlerSets : Websocket(callbacks)
    \/ Fetch("GET", <<"/">>, TRUE)
    \/ \E event \in WsEvents : WsEvent(event)

SpecWs == Init /\ [][NextWs]_vars

\* ====================================================================== claims
\* The positions of the log at which stage ev ran.
Ran(ev) == {i \in 1..Len(log) : log[i].ev = ev}

\* ---------------------------------------------------------------------- C1
\* C1: whenever a handler is invoked for a request (method M, pathname p), it
\* is the handler of the earliest-registered route under M whose matcher
\* matches p; no route registered before it under M matches p, however
\* specific the routes registered after it are.
C1_FirstMatchWins ==
    \A i \in Ran("handler") :
        LET list == routes[req.method]
        IN  \E k \in 1..Len(list) :
                /\ list[k].handler = log[i].n
                /\ RegexMatch(list[k].regex, req.pathname)[1]
                /\ \A j \in 1..(k - 1) :
                       ~RegexMatch(list[j].regex, req.pathname)[1]

\* /a/:x was registered before /a/b, the request is GET /a/b, and the handler
\* of /a/:x ran with x = "b".
C1_Witness ==
    /\ templates["GET"] = << <<"/", "a", "/", ":", "x">>, <<"/", "a", "/", "b">> >>
    /\ req.method = "GET"
    /\ req.pathname = <<"/", "a", "/", "b">>
    /\ \E i \in Ran("handler") : log[i].n = routes["GET"][1].handler
    /\ req.params = Obj([key \in {<<"x">>} |-> Str(<<"b">>)])

\* ---------------------------------------------------------------------- C2
\* The parameter names of a template as the specification gives them: for
\* each segment that begins with ':', the text after the colon.
RECURSIVE SpecParamNames(_)
SpecParamNames(T) ==
    IF T = <<>> THEN <<>>
    ELSE IF Len(T) >= 2 /\ T[1] = "/" /\ T[2] = ":"
         THEN LET n == SlashFreeRun(DropN(T, 2))
              IN  <<SubSeq(T, 3, 2 + n)>> \o SpecParamNames(DropN(T, 2 + n))
         ELSE SpecParamNames(Tail(T))

\* The pathname got by putting vals, in order, into the parameter slots of T.
RECURSIVE Substitute(_, _)
Substitute(T, vals) ==
    IF T = <<>> THEN <<>>
    ELSE IF Len(T) >= 2 /\ T[1] = "/" /\ T[2] = ":"
         THEN <<"/">> \o vals[1]
              \o Substitute(DropN(T, 2 + SlashFreeRun(DropN(T, 2))), Tail(vals))
         ELSE <<T[1]>> \o Substitute(Tail(T), vals)

\* Non-empty strings without '/'.
ParamValues == { <<"a">>, <<"b">>, <<"a", "b">> }

ExpectedParams(P, vals) ==
    Obj([name \in {P[i] : i \in 1..Len(P)} |->
            Str(vals[CHOOSE i \in 1..Len(P) : P[i] = name])])

\* C2: for every registered template T with parameter names P and every
\* choice of values, the pathname that substitutes the values into T matches
\* T's matcher, and when that route is the one dispatched for that pathname
\* the params the handler is given are the values keyed by the names of P.
C2_ParamsKeyedByNames ==
    \A m \in Methods : \A k \in 1..Len(routes[m]) :
        LET T == templates[m][k]
            P == SpecParamNames(T)
        IN  \A vals \in [1..Len(P) -> ParamValues] :
                LET p == Substitute(T, vals)
                IN  /\ RegexMatch(routes[m][k].regex, p)[1]
                    /\ (/\ pc = "handler"
                        /\ route = routes[m][k]
                        /\ req.method = m
                        /\ req.pathname = p)
                       => req.params = ExpectedParams(P, vals)

\* ---------------------------------------------------------------------- C3
IsMw(e) == e.ev = "mw"
\* The middleware entries started for the request, in the order started.
Started(l) == LET m == SelectSeq(l, IsMw) IN [i \in 1..Len(m) |-> m[i].n]
DispatchStages == {"lookup", "enrich", "handler", "raise", "static"}
Dispatched(l) == \E i \in 1..Len(l) : l[i].ev \in DispatchStages

\* C3: the entries started for a request are a prefix of the registered
\* chain, each once and in registration order; at the step that begins route
\* lookup every registered entry has been started; and no entry is started
\* after lookup, enrichment, the handler or the static fallback has begun.
C3_MiddlewareBeforeDispatch ==
    [][ /\ Len(Started(log')) <= Len(middlewares')
        /\ Started(log') = SubSeq(middlewares', 1, Len(Started(log')))
        /\ (Dispatched(log') /\ ~Dispatched(log)) => Started(log') = middlewares'
        /\ \A i \in 1..Len(log') : \A j \in 1..Len(log') :
              (log'[i].ev \in DispatchStages /\ log'[j].ev = "mw") => j < i
      ]_vars

\* Two entries were registered and started in order, then lookup missed and
\* the request ended with a response.
C3_Witness ==
    /\ middlewares = <<1, 2>>
    /\ Started(log) = <<1, 2>>
    /\ Dispatched(log)
    /\ pc = "done"
    /\ result.kind = "response"

\* ---------------------------------------------------------------------- C4
\* body is content with the reload script put in at one place.
WithScript(body, content) ==
    \E i \in 0..Len(content) :
        body = SubSeq(content, 1, i) \o <<script>> \o SubSeq(content, i + 1, Len(content))

LookupMissed == \E i \in Ran("lookup") : log[i].n = 0

\* C4: a request that matched no route and went through the static fallback
\* ends, for GET with no file at the resolved path, with the content of the
\* root index.html under spa (with the reload script when livereload is on)
\* and with the fixed 404 otherwise; for any other method, with the 404.
C4_SpaOr404 ==
    (pc = "done" /\ LookupMissed /\ Ran("static") # {}) =>
        IF req.method = "GET"
        THEN disk.file = Missing =>
                IF options.spa
                THEN disk.index # Missing =>
                        /\ result.kind = "response"
                        /\ \/ result.resp.body = disk.index
                           \/ /\ options.livereload
                              /\ WithScript(result.resp.body, disk.index)
                ELSE result.kind = "response" /\ result.resp = NotFound
        ELSE result.kind = "response" /\ result.resp = NotFound

\* ---------------------------------------------------------------------- C5
\* C5: once the matched handler has raised, the request has ended with a
\* response of the 500 class, and no error has left the pipeline.
C5_HandlerErrorIs500 ==
    Ran("raise") # {} =>
        /\ result.kind = "response"
        /\ result.resp.status \in 500..599

\* ---------------------------------------------------------------------- C6
\* C6: for a request that was upgraded, the upgrade is the only stage that
\* ran: no middleware entry, no lookup, no handler, no static fallback, and
\* no response of the pipeline.
C6_UpgradeBypassesPipeline ==
    (log # <<>> /\ log[1] = Event("upgrade", 1)) =>
        /\ Len(log) = 1
        /\ pc = "done"
        /\ result.kind = "upgraded"
        /\ route = NoRoute
        /\ early = Unset
        /\ disk = Unset

\* A request was upgraded while a middleware entry and a route matching its
\* pathname were registered.
C6_Witness ==
    /\ log = <<Event("upgrade", 1)>>
    /\ middlewares # <<>>
    /\ Lookup(routes[req.method], req.pathname) > 0

\* ---------------------------------------------------------------------- C7
Contains(tokens, tok) == \E i \in 1..Len(tokens) : tokens[i] = tok

\* The script stands immediately before the first </head> of body.
ScriptBeforeHead(body) ==
    \E i \in 1..(Len(body) - 1) :
        /\ body[i] = script
        /\ body[i + 1] = "</head>"
        /\ \A j \in 1..i : body[j] # "</head>"

IsHtmlResponse(resp) == resp.ctype \in {html, "text/html;charset=utf-8"}

\* C7 as stated: with livereload on, every HTML response with a </head>,
\* from a handler or from a file, has the script immediately before it.
C7_EveryHtmlHasScript ==
    (options.livereload /\ result.kind = "response"
       /\ IsHtmlResponse(result.resp) /\ Contains(result.resp.body, "</head>"))
    => ScriptBeforeHead(result.resp.body)

\* The file the static fallback answered with.
ServedContent == IF result.via = "spa" THEN disk.index ELSE disk.file
ServedIsHtml ==
    \/ result.via = "spa"
    \/ IsHtmlType(MimeType(JoinPublic(StaticPathname(req.pathname))))

\* C7 amended: with livereload on, a response served from an HTML file (the
\* resolved file or the SPA index.html) whose content has a </head> is that
\* content with the script immediately before its first </head>; a response
\* made from a handler's return value is never given the script.
C7_FilesGetScript ==
    (options.livereload /\ result.kind = "response") =>
        /\ (result.via \in {"file", "spa"} /\ ServedIsHtml
              /\ Contains(ServedContent, "</head>"))
           => /\ ScriptBeforeHead(result.resp.body)
              /\ WithScript(result.resp.body, ServedContent)
        /\ result.via = "route"
           => /\ ~Contains(result.resp.body, script)
              /\ result.returned.t = "string"
                 => result.resp.body = result.returned.v

\* livereload is on and an existing HTML file was served with the script.
C7_Witness ==
    /\ options.livereload
    /\ result.kind = "response"
    /\ result.via = "file"
    /\ disk.file = HeadPage
    /\ ScriptBeforeHead(result.resp.body)

\* ---------------------------------------------------------------------- C8
IsElementShape(value) ==
    value.t = "object" /\ {"type", "props"} \subseteq DOMAIN value.o

\* C8: a handler's return value that is a plain object without the shape
\* {type, props} is answered with its JSON serialization and the JSON
\* content type.
C8_PlainObjectIsJson ==
    (result.kind = "response" /\ result.via = "route"
       /\ result.returned.t = "object" /\ ~IsElementShape(result.returned))
    => /\ result.resp.ctype = json
       /\ result.resp.body = JsonStringify(result.returned)

\* ---------------------------------------------------------------------- C9
\* C9: once a middleware entry has returned a Response, the request has
\* ended with that Response, and that entry is the last stage that ran.
C9_EarlyResponseEndsRequest ==
    early # Unset =>
        /\ pc = "done"
        /\ result.kind = "response"
        /\ result.resp = early
        /\ log[Len(log)].ev = "mw"

\* --------------------------------------------------------------------- C10
\* C10: when the body of a request that matched a route cannot be parsed,
\* the request ends with a response of the 400 class and the handler is not
\* invoked.
C10_BadBodyIs400 ==
    req.body \in {"badjson", "badform"} =>
        /\ result.kind = "response"
        /\ result.resp.status \in 400..499
        /\ Ran("handler") = {}

\* --------------------------------------------------------------------- C11
\* The mapping a form body with the one field name=bun parses to.
FormMapping == Obj([name |-> Str(<<"bun">>)])

\* C11: once the body of a matched request has been read, enrichment has not
\* failed for a well-formed body of any of the three kinds, and when the
\* handler is reached req.payload holds the parsed JSON value for a JSON
\* body, the field mapping for a form body and the raw buffer for any other
\* body, and req.query is set.
C11_PayloadByContentType ==
    req.body \in {"json", "form", "other"} =>
        /\ pc \in {"handler", "done"}
        /\ Ran("handler") = {} => result.kind # "rejected"
        /\ req.payload = (CASE req.body = "json" -> ParsedJson
                            [] req.body = "form" -> FormMapping
                            [] OTHER -> RawBuffer)
        /\ req.query # Unset

\* --------------------------------------------------------------------- C12
\* C12: the active handler set is always the one the latest websocket(...)
\* call registered, and every event is delivered to the callback of the same
\* name of that set and to nothing else: to no callback when no set is
\* registered or when that set has no callback for the event.
C12_LastHandlerSetGetsEvents ==
    [][/\ wsHandler' = wsLast'
       /\ delivered'.seq # delivered.seq =>
            delivered'.to =
               IF wsLast # Null /\ delivered'.event \in wsLast.callbacks
               THEN <<wsLast.id, delivered'.event>>
               ELSE <<0, "">>]_vars

\* A message reached the message callback of the second registered set.
C12_Witness ==
    /\ wsLast # Null
    /\ wsLast.id = 2
    /\ delivered.event = "message"
    /\ delivered.to = <<2, "message">>

\* --------------------------------------------------------------------- C13
HasDuplicates(names) ==
    \E i, j \in 1..Len(names) : i < j /\ names[i] = names[j]

\* C13: the route table never holds a route whose template names one
\* parameter twice: register fails on such a template and leaves the table
\* as it was.
C13_DuplicateNamesRejected ==
    \A m \in Methods : \A k \in 1..Len(routes[m]) :
        ~HasDuplicates(SpecParamNames(templates[m][k]))

\* --------------------------------------------------------------------- C19
\* The number of capture groups of a compiled pattern.
RECURSIVE CaptureGroups(_)
CaptureGroups(regex) ==
    IF regex = <<>> THEN 0
    ELSE (IF Head(regex) = Group THEN 1 ELSE 0) + CaptureGroups(Tail(regex))

\* C19: every stored route has as many capture groups in its pattern as it
\* has parameter names, whatever template register accepted.
C19_GroupsEqualNames ==
    \A m \in Methods : \A k \in 1..Len(routes[m]) :
        CaptureGroups(routes[m][k].regex) = Len(routes[m][k].keys)

\* --------------------------------------------------------------------- C14
\* The file below the public directory a pathname names: index.html inside
\* the directory for a pathname that ends in '/', the pathname itself
\* otherwise.
DirectoryIndex(pathname) ==
    JoinPublic(IF pathname # <<>> /\ pathname[Len(pathname)] = "/"
               THEN pathname \o <<"index.html">>
               ELSE pathname)

\* C14: the static fallback of a GET request looks for the file the
\* pathname names below the public directory, a pathname ending in '/'
\* naming index.html inside that directory.
C14_DirectoryResolvesToItsIndex ==
    (Ran("static") # {} /\ req.method = "GET") =>
        disk.path = DirectoryIndex(req.pathname)

\* --------------------------------------------------------------------- C15
\* C15: a response of the static fallback made from a file (the resolved
\* file or the SPA index.html) carries the reload script only when
\* livereload is on and the file is HTML, and with livereload off its body
\* is the content of the file, unchanged.
C15_ScriptOnlyUnderLivereload ==
    (result.kind = "response" /\ result.via \in {"file", "spa"}) =>
        /\ Contains(result.resp.body, script)
              => options.livereload /\ ServedIsHtml
        /\ ~options.livereload => result.resp.body = ServedContent

\* --------------------------------------------------------------------- C16
\* In the stages l of a request, every entry after which anything ran had
\* invoked its continuation first.
AdvancedAfterNext(l) ==
    \A i \in 1..(Len(l) - 1) :
        l[i].ev = "mw" => l[i + 1] = Event("next", l[i].n)

\* A request whose latest entry has not invoked its continuation waits in
\* the chain and has no response.
Stalled(r) == r.log # <<>> /\ r.log[Len(r.log)].ev = "mw"
StalledIsSilent(r) ==
    Stalled(r) => r.pc = "mwWait" /\ r.result.kind \in {"pending", "unhandled"}

\* C16: for each request in flight, nothing runs after a middleware entry
\* (no later entry, lookup, handler, static fallback) unless that entry
\* invoked its continuation, and while it has not the request has no
\* response; and a step of one request leaves the other request as it was.
C16_ChainWaitsForContinuation ==
    [][/\ AdvancedAfterNext(log') /\ AdvancedAfterNext(parked'.log)
       /\ StalledIsSilent(Current') /\ StalledIsSilent(parked')
       /\ parked' = parked \/ (parked' = Current /\ Current' = parked)]_vars

\* One request waits at an entry that has not invoked its continuation
\* while the other, passed on by both entries, has ended with a response.
C16_Witness ==
    /\ Stalled(parked)
    /\ parked.result = Pending
    /\ pc = "done"
    /\ result.kind = "response"
    /\ Cardinality(Ran("next")) = 2

\* --------------------------------------------------------------------- C17
\* C17: no request is looked up in the route table while initRoute still has
\* pages to register, and a request whose lookup found no route would find
\* none in the table as it is now: no route that matches it was registered
\* after it was dispatched.
C17_RegistrationBeforeTraffic ==
    /\ pending # <<>> => Ran("lookup") = {}
    /\ LookupMissed => Lookup(routes[req.method], req.pathname) = 0

\* --------------------------------------------------------------------- C18
Primitive(value) == value.t \in {"number", "boolean", "null", "undefined"}

\* C18: once a handler has returned a number, a boolean, null or undefined,
\* the request has ended with a text/plain response whose body is the string
\* the value coerces to.
C18_PrimitiveIsText ==
    (Ran("handler") # {} /\ Ran("raise") = {} /\ "returned" \in DOMAIN result
       /\ Primitive(result.returned))
    => /\ result.kind = "response"
       /\ result.resp.ctype = text
       /\ result.resp.body = ToStringJS(result.returned)

\* --------------------------------------------------------------------- C20
RouteHit == \E i \in Ran("lookup") : log[i].n > 0

\* C20: at most one handler is invoked for a request; once a route matched,
\* the static fallback is never consulted and no response comes from it or
\* from the fixed 404, whatever the handler returned; and when no route
\* matched, no handler was invoked, the request was not enriched and its
\* body was not read.
C20_RouteHitIsTerminal ==
    /\ Cardinality(Ran("handler")) <= 1
    /\ RouteHit =>
          /\ pc # "static"
          /\ Ran("static") = {}
          /\ result.kind = "response" => result.via = "route"
    /\ LookupMissed =>
          /\ Ran("handler") = {}
          /\ Ran("enrich") = {}
          /\ req.body = "unread"
          /\ req.params = Unset /\ req.payload = Unset
          /\ req.data = Unset /\ req.query = Unset

\* A route matched and its handler returned null: the request ended in the
\* route branch, without a response.
C20_Witness ==
    /\ RouteHit
    /\ pc = "done"
    /\ Ran("handler") # {}
    /\ result.kind = "rejected"
    /\ result.returned = Null
====
